---- MODULE Spec2Model ----
(***************************************************************************)
(* Orders synchronisation of the TikTok Shop dashboard backend:            *)
(* sync_orders_task (backend/app/api/sync.py) driving                      *)
(* TikTokShopClient.get_orders / _make_request                             *)
(* (backend/app/services/tiktok_client.py) and                             *)
(* DataTransformer.transform_order                                         *)
(* (backend/app/services/data_transformer.py), over the orders and         *)
(* sync_metadata tables; with them sync_products_task and get_products,    *)
(* and the access token check of the sync endpoints                        *)
(* (TokenManager.get_valid_token, backend/app/services/token_manager.py).  *)
(*                                                                         *)
(* Conventions.  A Python dict is a TLA+ function whose DOMAIN is a set of *)
(* strings; d.get(k) is Get(d, k).  The params dict of the client, whose   *)
(* insertion order the code sorts away, is a sequence of <<key, value>>    *)
(* pairs with distinct keys.  A value that may be None (or JSON            *)
(* null) is a sequence of length at most one: None is <<>>, v is <<v>>.    *)
(* A naive datetime is an integer count of minutes of wall-clock time; a   *)
(* Unix timestamp is an integer count of minutes since the epoch.  The     *)
(* coroutine runs without interruption between two awaits of the HTTP      *)
(* client, so one action covers the code from one await to the next.       *)
(***************************************************************************)
EXTENDS Integers, Sequences, FiniteSets, TLC

(* ------------------------------ bounds --------------------------------- *)

\* orders the shop ever receives
MaxOrders == 2

\* minutes the clock may advance past Now0
MaxClock == 1

\* most records upstream puts in one page (it never returns more than asked)
UpstreamPageCap == 1

\* largest max_orders / max_records value a caller supplies
MaxCap == 1

\* most records the upstream of SpecPaged puts in one page
MaxPage == 2

\* clock reading (minutes since the epoch) at server start
Now0 == 1000

\* requests a products pass is followed for
MaxRequests == 3

(* ----------------------------- constants ------------------------------- *)

\* timedelta(minutes=5): overlap of the incremental window
OverlapMinutes == 5

\* page_size=100 asked for by the sync pass
SyncPageSize == 100

\* min(page_size, 50) in get_orders
OrdersPageSizeCap == 50

\* sync_products_task asks for pages of 100 products (sync.py:191)
ProductsSyncPageSize == 100

\* get_products caps page_size at 100 (tiktok_client.py:305)
ProductsPageSizeCap == 100

\* get_valid_token (token_manager.py:108): a stored token must stay valid
\* for more than this many minutes
TokenBufferMinutes == 5

\* request handlers (coroutines) the server can have alive at once
Tasks == {1, 2}

\* UTC offsets (minutes) of the zones the server process is run in: one
\* hour east of UTC, so that local time and UTC differ
UtcOffsets == {60}

\* order_status values upstream reports
Statuses == {"UNPAID", "COMPLETED"}

\* shapes of an upstream order record: well formed, "id" key missing,
\* "create_time" null
Shapes == {"ok", "no_id", "null_time"}

(* ------------------------- Python value helpers ------------------------ *)

None == <<>>

Some(v) == <<v>>

\* dict.get(k): None when the key is missing
Get(d, k) == IF k \in DOMAIN d THEN d[k] ELSE None

\* dict.get(k, default)
GetOr(d, k, default) == IF k \in DOMAIN d THEN d[k] ELSE default

\* {} : the empty dict
EmptyDict == [k \in {} |-> None]

\* d[k] = v on a dict
Put(d, k, v) == [x \in (DOMAIN d) \cup {k} |-> IF x = k THEN v ELSE d[x]]

\* d.pop(k, None)
Pop(d, k) == [x \in (DOMAIN d) \ {k} |-> d[x]]

\* the keys of a params dict
Keys(items) == {items[i][1] : i \in DOMAIN items}

\* params[k], for a key the dict holds
Value(items, k) == items[CHOOSE i \in DOMAIN items : items[i][1] = k][2]

\* params[k] = v: a key the dict holds keeps its place, a new key goes last
SetItem(items, k, v) ==
    IF k \in Keys(items)
    THEN [items EXCEPT ![CHOOSE i \in DOMAIN items : items[i][1] = k] = <<k, v>>]
    ELSE Append(items, <<k, v>>)

\* params.pop(k, None)
PopItem(items, k) == SelectSeq(items, LAMBDA it : it[1] /= k)

\* the mapping a params dict stands for, whatever its insertion order (what
\* upstream reads from the query string)
QueryOf(items) == [k \in Keys(items) |-> Value(items, k)]

Min(a, b) == IF a <= b THEN a ELSE b

\* truth value of an Optional[int]: None and 0 are falsy
TruthyInt(o) == o /= None /\ o[1] /= 0

\* truth value of an Optional[str]: None and "" are falsy
TruthyStr(o) == o /= None /\ o[1] /= ""

\* s[-1]: the last element of a non-empty sequence
Last(s) == s[Len(s)]

RECURSIVE Reverse(_)
Reverse(s) == IF s = <<>> THEN <<>> ELSE Append(Reverse(Tail(s)), Head(s))

(* ------------------------------ settings ------------------------------- *)

tiktok_app_key == "appkey"

tiktok_app_secret == "appsecret"

tiktok_shop_cipher == Some("cipher")

tiktok_shop_id == None

\* TIKTOK_ACCESS_TOKEN of .env, when it is set
ConfiguredToken == Some("token")

VARIABLES
    clock,          \* true time, minutes since the epoch
    utcoffset,      \* UTC offset of the server's local zone, minutes
    remote,         \* upstream: the shop's order records, oldest first
    orders,         \* table orders: a set of rows
    sync_metadata,  \* table sync_metadata: a set of rows
    task,           \* per handler: the locals of sync_orders_task and its history
    last_upserted,  \* history: per order id, the upstream record last upserted
                    \* and committed
    prev_run,       \* history, kept when prev_run.tracking: the arguments of
                    \* the last pass that ended, when it ended normally
    calls,          \* history: the two most recent direct calls of
                    \* _make_request, the later one last
    tiktok_access_token,  \* settings.tiktok_access_token: Optional[str]
    oauth_tokens,   \* table oauth_tokens: a set of rows
    remote_products,  \* upstream: the shop's product records
    products        \* table products: a set of rows

vars == <<clock, utcoffset, remote, orders, sync_metadata, task,
          last_upserted, prev_run, calls, tiktok_access_token, oauth_tokens,
          remote_products, products>>

(* ------------------------------- time ---------------------------------- *)

\* datetime.utcnow(): naive datetime holding UTC wall-clock time
utcnow == clock

\* time.time()
time_time == clock

\* naive_datetime.timestamp(): a naive datetime is read as local time
timestamp(dt) == dt - utcoffset

\* datetime.fromtimestamp(ts): naive datetime holding local wall-clock time
fromtimestamp(ts) == ts + utcoffset

(* ----------------------- DataTransformer.transform_order --------------- *)

\* a or b, for Optional[str]
OrStr(a, b) == IF TruthyStr(a) THEN a ELSE b

\* transform_order raises: datetime.fromtimestamp(None) is a TypeError
\* (a "create_time" key holding null; a missing key takes the default 0)
transform_order_raises(raw_order) ==
    GetOr(raw_order, "create_time", Some(0)) = None

\* the dict transform_order returns
transform_order(raw_order) ==
    [ id           |-> Get(raw_order, "id"),
      order_number |-> OrStr(Get(raw_order, "order_id"), Get(raw_order, "id")),
      status       |-> OrStr(Get(raw_order, "order_status"),
                             GetOr(raw_order, "status", Some("UNKNOWN"))),
      created_time |-> fromtimestamp(GetOr(raw_order, "create_time", Some(0))[1]),
      raw_data     |-> raw_order ]

(* ------------------------------ tables --------------------------------- *)

\* db.query(Order).filter(Order.id == id): "id = NULL" matches no row
query_order(tbl, id) == {r \in tbl : id /= None /\ r.id = id}

\* update_existing that leaves the row found as it is
update_existing_skipped(existing, order_data) == existing

\* setattr(existing, key, value) for every key of order_data
update_existing(existing, order_data) ==
    [existing EXCEPT !.id = order_data.id,
                     !.order_number = order_data.order_number,
                     !.status = order_data.status,
                     !.created_time = order_data.created_time,
                     !.raw_data = order_data.raw_data]

\* Order(**order_data): the columns order_data sets (synced_at, which no
\* pass reads or writes after the insert, is left out)
new_order(order_data) ==
    [ id           |-> order_data.id,
      order_number |-> order_data.order_number,
      status       |-> order_data.status,
      created_time |-> order_data.created_time,
      raw_data     |-> order_data.raw_data ]

\* one iteration of "for raw_order in orders", on the session's view of
\* the table: update the row found, or add a new one
upsert_order(tbl, order_data) ==
    LET found == query_order(tbl, order_data.id) IN
    IF found /= {}
    THEN LET existing == CHOOSE r \in found : TRUE IN
         (tbl \ {existing}) \cup {update_existing(existing, order_data)}
    ELSE tbl \cup {new_order(order_data)}

\* constraints of table orders the flush enforces: primary key id (not
\* null, unique) and unique order_number
orders_constraints(tbl) ==
    /\ \A r \in tbl : r.id /= None
    /\ \A r1, r2 \in tbl : r1.id = r2.id => r1 = r2
    /\ \A r1, r2 \in tbl :
           (r1.order_number /= None /\ r1.order_number = r2.order_number) => r1 = r2

\* "if order_data.get('created_at')": the most recent order time tracked
track_most_recent(most_recent_order_time, order_data) ==
    IF Get(order_data, "created_at") /= None
    THEN IF most_recent_order_time = None
            \/ order_data["created_at"][1] > most_recent_order_time[1]
         THEN order_data["created_at"]
         ELSE most_recent_order_time
    ELSE most_recent_order_time

\* upsert_page that stops after the first record of the page
upsert_page_first_only(st, page) ==
    IF page = <<>> \/ st.raised THEN st
    ELSE LET raw_order == Head(page) IN
         IF transform_order_raises(raw_order)
         THEN [st EXCEPT !.raised = TRUE]
         ELSE LET order_data == transform_order(raw_order) IN
              [ orders |-> upsert_order(st.orders, order_data),
                synced_count |-> st.synced_count + 1,
                most_recent_order_time |->
                    track_most_recent(st.most_recent_order_time, order_data),
                raised |-> FALSE ]

\* the body of "for raw_order in orders" over a whole page; st holds the
\* session's table, synced_count, most_recent_order_time and whether an
\* exception left the loop
RECURSIVE upsert_page(_, _)
upsert_page(st, page) ==
    IF page = <<>> \/ st.raised THEN st
    ELSE LET raw_order == Head(page) IN
         IF transform_order_raises(raw_order)
         THEN [st EXCEPT !.raised = TRUE]
         ELSE LET order_data == transform_order(raw_order) IN
              upsert_page(
                  [ orders |-> upsert_order(st.orders, order_data),
                    synced_count |-> st.synced_count + 1,
                    most_recent_order_time |->
                        track_most_recent(st.most_recent_order_time, order_data),
                    raised |-> FALSE ],
                  Tail(page))

\* update_sync_metadata that adds to records_synced of the row it finds
update_sync_metadata_adding(tbl, most_recent_order_time, synced_count, is_full_sync) ==
    LET found == {m \in tbl : m.sync_type = "orders"}
        last_record_time == IF most_recent_order_time /= None
                            THEN most_recent_order_time ELSE Some(utcnow)
    IN
    IF found /= {}
    THEN LET sync_meta == CHOOSE m \in found : TRUE IN
         (tbl \ {sync_meta}) \cup
             {[sync_meta EXCEPT !.last_sync_time = utcnow,
                                !.last_record_time = last_record_time,
                                !.records_synced = @ + synced_count,
                                !.is_full_sync = IF is_full_sync THEN 1 ELSE 0]}
    ELSE tbl \cup
             {[ sync_type |-> "orders",
                last_sync_time |-> utcnow,
                last_record_time |-> last_record_time,
                records_synced |-> synced_count,
                is_full_sync |-> IF is_full_sync THEN 1 ELSE 0 ]}

\* "Update sync metadata": the sync_metadata table after the final block
update_sync_metadata(tbl, most_recent_order_time, synced_count, is_full_sync) ==
    LET found == {m \in tbl : m.sync_type = "orders"}
        last_record_time == IF most_recent_order_time /= None
                            THEN most_recent_order_time ELSE Some(utcnow)
    IN
    IF found /= {}
    THEN LET sync_meta == CHOOSE m \in found : TRUE IN
         (tbl \ {sync_meta}) \cup
             {[sync_meta EXCEPT !.last_sync_time = utcnow,
                                !.last_record_time = last_record_time,
                                !.records_synced = synced_count,
                                !.is_full_sync = IF is_full_sync THEN 1 ELSE 0]}
    ELSE tbl \cup
             {[ sync_type |-> "orders",
                last_sync_time |-> utcnow,
                last_record_time |-> last_record_time,
                records_synced |-> synced_count,
                is_full_sync |-> IF is_full_sync THEN 1 ELSE 0 ]}

(* --------------------------- TikTokShopClient -------------------------- *)

\* TikTokShopClient(access_token): the client object, with
\* self.access_token = access_token or settings.tiktok_access_token or ""
TikTokShopClient(access_token) ==
    [ access_token |-> OrStr(access_token, OrStr(tiktok_access_token, Some("")))[1] ]

\* every query parameter name the client uses, in ascending string order
\* (the order sorted() gives)
ParamKeyOrder ==
    << "access_token", "app_key", "page_size", "page_token", "shop_cipher",
       "shop_id", "sign", "sort_field", "sort_order", "timestamp", "version" >>

\* every key of an order-search or product-search body, in ascending
\* string order
BodyKeyOrder == << "create_time_from", "create_time_to", "order_status", "status" >>

\* keys whose values are Python ints
IntKeys == {"page_size", "create_time_from", "create_time_to"}

\* str(v)
str(k, v) == IF k \in IntKeys THEN ToString(v) ELSE v

\* sorted(d.items()), as the sequence of the keys (for a body dict)
sorted_keys(d, order) == SelectSeq(order, LAMBDA k : k \in DOMAIN d)

\* the items whose keys are in order, taken in that order
RECURSIVE in_key_order(_, _)
in_key_order(items, order) ==
    IF order = <<>> THEN <<>>
    ELSE (IF Head(order) \in Keys(items)
          THEN << <<Head(order), Value(items, Head(order))>> >> ELSE <<>>)
         \o in_key_order(items, Tail(order))

\* sorted that leaves the items in insertion order
sorted_as_inserted(items) == items

\* sorted(params_for_sign.items()): ascending by key (keys are distinct, so
\* values are never compared)
sorted(items) == in_key_order(items, ParamKeyOrder)

\* join_params that writes each pair as a query string does
RECURSIVE join_params_as_query(_)
join_params_as_query(sorted_params) ==
    IF sorted_params = <<>> THEN ""
    ELSE LET k == Head(sorted_params)[1]
             v == Head(sorted_params)[2]
         IN k \o "=" \o str(k, v) \o "&" \o join_params_as_query(Tail(sorted_params))

\* "".join(f"{k}{str(v)}" for k, v in sorted_params)
RECURSIVE join_params(_)
join_params(sorted_params) ==
    IF sorted_params = <<>> THEN ""
    ELSE LET k == Head(sorted_params)[1]
             v == Head(sorted_params)[2]
         IN k \o str(k, v) \o join_params(Tail(sorted_params))

\* hmac.new(key, msg, sha256).hexdigest(): kept symbolic, one digest per
\* (key, msg)
hmac_sha256_hex(key, msg) == <<"hmac-sha256", key, msg>>

\* _generate_signature: (signature, timestamp), with the locals it computed
generate_signature(path, params, body) ==
    LET ts == ToString(time_time)
        params_for_sign == SetItem(PopItem(PopItem(params, "sign"), "timestamp"),
                                   "timestamp", ts)
        sorted_params == sorted(params_for_sign)
        param_str == join_params(sorted_params)
        string_to_sign == path \o param_str \o body
        wrapped_string == tiktok_app_secret \o string_to_sign \o tiktok_app_secret
    IN [ signature |-> hmac_sha256_hex(tiktok_app_secret, wrapped_string),
         timestamp |-> ts,
         params_for_sign |-> params_for_sign,
         param_str |-> param_str,
         string_to_sign |-> string_to_sign,
         wrapped_string |-> wrapped_string ]

\* "k":v,"k":v of json.dumps(body, separators=(',', ':'), sort_keys=True)
RECURSIVE json_members(_, _)
json_members(d, keys) ==
    IF keys = <<>> THEN ""
    ELSE LET k == Head(keys)
             v == IF k \in IntKeys THEN ToString(d[k]) ELSE "\"" \o d[k] \o "\""
         IN "\"" \o k \o "\":" \o v
            \o (IF Tail(keys) = <<>> THEN "" ELSE ",") \o json_members(d, Tail(keys))

\* body_str that gives a POST with no body the empty string
body_str_none_as_empty(method, body) ==
    IF method = "POST"
    THEN IF body = None THEN ""
         ELSE IF DOMAIN body[1] = {} THEN "{}"
         ELSE "{" \o json_members(body[1], sorted_keys(body[1], BodyKeyOrder)) \o "}"
    ELSE ""

\* body_str of _make_request
body_str(method, body) ==
    IF method = "POST"
    THEN IF body = None \/ DOMAIN body[1] = {}
         THEN "{}"
         ELSE "{" \o json_members(body[1], sorted_keys(body[1], BodyKeyOrder)) \o "}"
    ELSE ""

\* the separators json.dumps is called with by the versions of httpx the
\* build may install: (", ", ": ") before 0.28, (",", ":") from 0.28 on
HttpxSeparators == { <<", ", ": ">>, <<",", ":">> }

\* "k": v, "k": v of json.dumps(json, separators=separators), the keys in
\* the order given
RECURSIVE httpx_members(_, _, _)
httpx_members(d, keys, separators) ==
    IF keys = <<>> THEN ""
    ELSE LET k == Head(keys)
             v == IF k \in IntKeys THEN ToString(d[k]) ELSE "\"" \o d[k] \o "\""
         IN "\"" \o k \o "\"" \o separators[2] \o v
            \o (IF Tail(keys) = <<>> THEN "" ELSE separators[1])
            \o httpx_members(d, Tail(keys), separators)

\* the body httpx transmits: none for client.get, and for
\* client.post(json=body) none when body is None, else json.dumps of the
\* dict in insertion order (the bodies built here insert their keys in
\* ascending order)
httpx_content(method, body, separators) ==
    IF method = "POST" /\ body /= None
    THEN "{" \o httpx_members(body[1], sorted_keys(body[1], BodyKeyOrder), separators)
         \o "}"
    ELSE ""

\* headers without the access token
headers_no_token(self) == "Content-Type" :> "application/json"

\* headers of _make_request
headers(self) ==
    ("Content-Type" :> "application/json")
    @@ ("x-tts-access-token" :> self.access_token)

\* _make_request raises ValueError in place of sending: a method it does
\* not support
make_request_raises(method) == method \notin {"GET", "POST"}

\* _make_request up to the await of the HTTP call: the request handed to
\* httpx (params as upstream reads them from the query string), and the
\* locals of the call: the params dict as the call leaves it and what
\* _generate_signature computed
make_request(self, method, path, params, body) ==
    LET p0 == IF params = None \/ params[1] = <<>> THEN <<>> ELSE params[1]
        p1 == SetItem(p0, "app_key", tiktok_app_key)
        sig == generate_signature(path, p1, body_str(method, body))
        p2 == SetItem(SetItem(p1, "sign", sig.signature), "timestamp", sig.timestamp)
        p3 == IF self.access_token /= ""
              THEN SetItem(p2, "access_token", self.access_token) ELSE p2
    IN [ request |-> [ method  |-> method,
                       path    |-> path,
                       params  |-> QueryOf(p3),
                       json    |-> body,
                       headers |-> headers(self),
                       signed  |-> sig.string_to_sign ],
         params          |-> p3,
         params_for_sign |-> sig.params_for_sign,
         param_str       |-> sig.param_str,
         body_str        |-> body_str(method, body),
         wrapped_string  |-> sig.wrapped_string,
         signature       |-> sig.signature,
         timestamp       |-> sig.timestamp ]

\* get_orders raises AttributeError at "start_time.timestamp()" when both
\* start_time and end_time are truthy: its caller hands it ints
get_orders_raises(start_time, end_time) ==
    TruthyInt(start_time) /\ TruthyInt(end_time)

\* request_body of get_orders (reached only when no date filter applies)
get_orders_body(order_status) ==
    IF TruthyStr(order_status)
    THEN Put(EmptyDict, "order_status", order_status[1]) ELSE EmptyDict

\* get_orders_params that sends the page size it was asked for
get_orders_params_uncapped(page_size, page_token, sort_field, sort_order) ==
    LET p0 == << <<"page_size", page_size>>,
                 <<"version", "202309">>,
                 <<"sort_field", sort_field>>,
                 <<"sort_order", sort_order>> >>
        p1 == IF TruthyStr(page_token)
              THEN SetItem(p0, "page_token", page_token[1]) ELSE p0
        p2 == IF TruthyStr(tiktok_shop_cipher)
              THEN SetItem(p1, "shop_cipher", tiktok_shop_cipher[1]) ELSE p1
    IN IF TruthyStr(tiktok_shop_id)
       THEN SetItem(p2, "shop_id", tiktok_shop_id[1]) ELSE p2

\* get_orders_params that forgets the page token
get_orders_params_no_token(page_size, page_token, sort_field, sort_order) ==
    LET p0 == << <<"page_size", Min(page_size, OrdersPageSizeCap)>>,
                 <<"version", "202309">>,
                 <<"sort_field", sort_field>>,
                 <<"sort_order", sort_order>> >>
        p2 == IF TruthyStr(tiktok_shop_cipher)
              THEN SetItem(p0, "shop_cipher", tiktok_shop_cipher[1]) ELSE p0
    IN IF TruthyStr(tiktok_shop_id)
       THEN SetItem(p2, "shop_id", tiktok_shop_id[1]) ELSE p2

\* params of get_orders
get_orders_params(page_size, page_token, sort_field, sort_order) ==
    LET p0 == << <<"page_size", Min(page_size, OrdersPageSizeCap)>>,
                 <<"version", "202309">>,
                 <<"sort_field", sort_field>>,
                 <<"sort_order", sort_order>> >>
        p1 == IF TruthyStr(page_token)
              THEN SetItem(p0, "page_token", page_token[1]) ELSE p0
        p2 == IF TruthyStr(tiktok_shop_cipher)
              THEN SetItem(p1, "shop_cipher", tiktok_shop_cipher[1]) ELSE p1
    IN IF TruthyStr(tiktok_shop_id)
       THEN SetItem(p2, "shop_id", tiktok_shop_id[1]) ELSE p2

\* the request get_orders sends
get_orders(self, page_size, page_token, order_status, sort_field, sort_order) ==
    make_request(self, "POST", "/order/202309/orders/search",
                 Some(get_orders_params(page_size, page_token, sort_field, sort_order)),
                 Some(get_orders_body(order_status))).request

(* ------------------------------ upstream ------------------------------- *)

\* the order record upstream serves for the i-th order of the shop
remote_order(i, shape, create_time, order_status) ==
    LET full == [ id           |-> Some(ToString(i)),
                  create_time  |-> IF shape = "null_time" THEN None ELSE Some(create_time),
                  order_status |-> Some(order_status) ]
    IN IF shape = "no_id" THEN Pop(full, "id") ELSE full

\* the continuation token upstream hands out for position k of the listing
page_token_of(k) == "t" \o ToString(k)

\* the position a continuation token stands for
token_position(tok) == CHOOSE k \in 0..(MaxOrders + 1) : page_token_of(k) = tok

\* create_time filter of an order-search body
in_window(raw_order, body) ==
    IF "create_time_from" \in DOMAIN body /\ "create_time_to" \in DOMAIN body
    THEN /\ raw_order.create_time /= None
         /\ raw_order.create_time[1] >= body["create_time_from"]
         /\ raw_order.create_time[1] <= body["create_time_to"]
    ELSE TRUE

\* the JSON an upstream that puts at most cap records in a page answers an
\* order-search request with when it succeeds: data.orders (one page of the
\* listing) and data.next_page_token (absent on the last page)
upstream_response(req, cap) ==
    LET body == IF req.json = None THEN EmptyDict ELSE req.json[1]
        ordered == IF req.params["sort_order"] = "DESC" THEN Reverse(remote) ELSE remote
        listing == SelectSeq(ordered, LAMBDA o : in_window(o, body))
        k == IF "page_token" \in DOMAIN req.params
             THEN token_position(req.params["page_token"]) ELSE 0
        n == Min(req.params["page_size"], cap)
        page == SubSeq(listing, k + 1, Min(k + n, Len(listing)))
        data == [ orders |-> page ]
    IN [ code |-> 0,
         message |-> "Success",
         data |-> IF k + n < Len(listing)
                  THEN Put(data, "next_page_token", Some(page_token_of(k + n)))
                  ELSE data ]

\* the JSON upstream answers with when it refuses the request (HTTP 200,
\* non-zero code, no data)
upstream_error == [ code |-> 36009004, message |-> "refused" ]

(* --------------------------- sync_orders_task -------------------------- *)

\* a handler that runs no pass
IdleTask ==
    [ pc |-> "idle",
      \* arguments
      access_token |-> "", max_orders |-> None, force_full_sync |-> FALSE,
      \* locals
      client |-> [access_token |-> ""], synced_count |-> 0, page_number |-> 1, page_token |-> None, start_time |-> None,
      end_time |-> None, is_full_sync |-> FALSE, most_recent_order_time |-> None,
      \* outcome: the exception raised to the caller, the value returned
      error |-> "", returned |-> None,
      \* history: the time and the tables at entry, requests sent, responses
      \* read, upstream records upserted and committed, prev_run.run at entry
      entered |-> None,
      meta_at_entry |-> {}, orders_at_entry |-> {}, requests |-> <<>>,
      responses |-> <<>>, committed |-> <<>>, prev_at_entry |-> None ]

\* "except Exception: db.rollback(); raise"
raise(tk, exc) == [tk EXCEPT !.pc = "failed", !.error = exc]

\* commit_page with the commit left out: the page is lost at the rollback
commit_page_skipped(stored, session) == stored

\* db.commit() of line 124: the session's view of the table becomes the
\* stored table
commit_page(stored, session) == session

\* select_mode that looks at the watermark before the force flag
select_mode_ignoring_force(force_full_sync, meta) ==
    LET found == {m \in meta : m.sync_type = "orders"} IN
    IF found /= {}
    THEN [ start_time |-> Some((CHOOSE m \in found : TRUE).last_sync_time
                               - OverlapMinutes),
           end_time |-> Some(utcnow),
           is_full_sync |-> FALSE ]
    ELSE [ start_time |-> None, end_time |-> None, is_full_sync |-> TRUE ]

\* lines 52-73: the mode and fetch window chosen at entry
select_mode(force_full_sync, meta) ==
    LET found == {m \in meta : m.sync_type = "orders"} IN
    IF ~force_full_sync
    THEN IF found /= {}
         THEN [ start_time |-> Some((CHOOSE m \in found : TRUE).last_sync_time
                                    - OverlapMinutes),
                end_time |-> Some(utcnow),
                is_full_sync |-> FALSE ]
         ELSE [ start_time |-> None, end_time |-> None, is_full_sync |-> TRUE ]
    ELSE [ start_time |-> None, end_time |-> None, is_full_sync |-> force_full_sync ]

\* call_get_orders that sends the request twice without awaiting the first
call_get_orders_twice(tk) ==
    LET start_time == IF tk.start_time /= None
                      THEN Some(timestamp(tk.start_time[1])) ELSE None
        end_time == IF tk.end_time /= None
                    THEN Some(timestamp(tk.end_time[1])) ELSE None
        request == get_orders(tk.client, SyncPageSize, tk.page_token, None, "create_time", "DESC")
    IN IF get_orders_raises(start_time, end_time)
       THEN raise(tk, "AttributeError")
       ELSE [tk EXCEPT !.pc = "awaiting",
                       !.requests = Append(Append(@, request), request)]

\* lines 77-84: the call of client.get_orders, up to the await of the HTTP
\* call (or to the exception get_orders raises)
call_get_orders(tk) ==
    LET start_time == IF tk.start_time /= None
                      THEN Some(timestamp(tk.start_time[1])) ELSE None
        end_time == IF tk.end_time /= None
                    THEN Some(timestamp(tk.end_time[1])) ELSE None
    IN IF get_orders_raises(start_time, end_time)
       THEN raise(tk, "AttributeError")
       ELSE [tk EXCEPT !.pc = "awaiting",
                       !.requests = Append(@, get_orders(tk.client, SyncPageSize, tk.page_token,
                                                         None, "create_time", "DESC"))]

\* finish without the rollback: a failed commit leaves last_sync_time written
finish_no_rollback(tk, ords, meta, commit_ok) ==
    IF commit_ok
    THEN [ tk |-> [tk EXCEPT !.pc = "done", !.returned = Some(tk.synced_count)],
           orders |-> ords,
           meta |-> update_sync_metadata(meta, tk.most_recent_order_time,
                                         tk.synced_count, tk.is_full_sync) ]
    ELSE [ tk |-> raise(tk, "OperationalError"), orders |-> ords,
           meta |-> update_sync_metadata(meta, tk.most_recent_order_time,
                                         tk.synced_count, tk.is_full_sync) ]

\* lines 138-162: the final block, with the commit succeeding or raising;
\* the result is the task, the orders table and the sync_metadata table
finish(tk, ords, meta, commit_ok) ==
    IF commit_ok
    THEN [ tk |-> [tk EXCEPT !.pc = "done", !.returned = Some(tk.synced_count)],
           orders |-> ords,
           meta |-> update_sync_metadata(meta, tk.most_recent_order_time,
                                         tk.synced_count, tk.is_full_sync) ]
    ELSE [ tk |-> raise(tk, "OperationalError"), orders |-> ords, meta |-> meta ]

\* lines 86-136 and what follows: the code run when get_orders returns
\* response, up to the next await or the end of the pass
on_response(tk0, response, ords, meta, page_commit_ok, meta_commit_ok) ==
    LET tk == [tk0 EXCEPT !.responses = Append(@, response)] IN
    IF response["code"] /= 0
    THEN finish(tk, ords, meta, meta_commit_ok)
    ELSE LET data == GetOr(response, "data", EmptyDict)
             page == GetOr(data, "orders", <<>>)
         IN
         IF page = <<>>
         THEN finish(tk, ords, meta, meta_commit_ok)
         ELSE LET st == upsert_page([ orders |-> ords,
                                      synced_count |-> tk.synced_count,
                                      most_recent_order_time |-> tk.most_recent_order_time,
                                      raised |-> FALSE ], page)
              IN
              IF st.raised
              THEN [ tk |-> raise(tk, "TypeError"), orders |-> ords, meta |-> meta ]
              ELSE IF ~orders_constraints(st.orders)
              THEN [ tk |-> raise(tk, "IntegrityError"), orders |-> ords, meta |-> meta ]
              ELSE IF ~page_commit_ok
              THEN [ tk |-> raise(tk, "OperationalError"), orders |-> ords, meta |-> meta ]
              ELSE LET tk2 == [tk EXCEPT
                                  !.synced_count = st.synced_count,
                                  !.most_recent_order_time = st.most_recent_order_time,
                                  !.page_token = Get(data, "next_page_token"),
                                  !.committed = @ \o page]
                   IN
                   IF ~TruthyStr(tk2.page_token)
                   THEN finish(tk2, commit_page(ords, st.orders), meta, meta_commit_ok)
                   ELSE IF TruthyInt(tk2.max_orders)
                           /\ tk2.synced_count >= tk2.max_orders[1]
                   THEN finish(tk2, commit_page(ords, st.orders), meta, meta_commit_ok)
                   ELSE [ tk |-> call_get_orders(tk2),
                          orders |-> commit_page(ords, st.orders), meta |-> meta ]

(* ----------------------------- TokenManager ---------------------------- *)

\* Fernet encryption under settings.encryption_key, kept symbolic
encrypt_token(token) == <<"fernet", token>>

decrypt_token(encrypted_token) == encrypted_token[2]

\* the rows "db.query(OAuthToken).first()" may return: no ORDER BY is
\* given, so any row of the table can be the first; None for an empty table
first(tbl) == IF tbl = {} THEN {None} ELSE {Some(r) : r \in tbl}

\* get_valid_token that takes a token for valid until it expires
get_valid_token_no_buffer(token_record) ==
    IF token_record = None THEN None
    ELSE IF token_record[1].expires_at <= utcnow THEN None
    ELSE Some(<<decrypt_token(token_record[1].access_token), token_record[1].shop_id>>)

\* get_valid_token, token_record being the row query.first() returned: the
\* pair (access_token, shop_id), or None
get_valid_token(token_record) ==
    IF token_record = None THEN None
    ELSE IF token_record[1].expires_at <= utcnow + TokenBufferMinutes THEN None
    ELSE Some(<<decrypt_token(token_record[1].access_token), token_record[1].shop_id>>)

\* the access token a sync endpoint ends up with: the one of settings, else
\* the stored one, else None (sync.py:383-391, 307-313)
endpoint_access_token(token_record) ==
    IF TruthyStr(tiktok_access_token) THEN tiktok_access_token
    ELSE LET token_info == get_valid_token(token_record)
         IN IF token_info /= None THEN Some(token_info[1][1]) ELSE None

(* ------------------------------- history ------------------------------- *)

\* the arguments of a pass
args_of(tk) == [ max_orders |-> tk.max_orders, force_full_sync |-> tk.force_full_sync ]

\* last_upserted after the records of a committed page
RECURSIVE note_upserts(_, _)
note_upserts(last, page) ==
    IF page = <<>> THEN last
    ELSE note_upserts(Put(last, Get(Head(page), "id"), Head(page)), Tail(page))

\* prev_run after a step that left a handler's pass in state after
note_run(after) ==
    IF ~prev_run.tracking THEN prev_run
    ELSE IF after.pc = "done" THEN [prev_run EXCEPT !.run = Some(args_of(after))]
    ELSE IF after.pc = "failed" THEN [prev_run EXCEPT !.run = None]
    ELSE prev_run

(* ------------------------------- actions ------------------------------- *)

Init ==
    /\ clock = Now0
    /\ utcoffset \in UtcOffsets
    /\ remote = <<>>
    /\ orders = {}
    /\ sync_metadata = {}
    /\ task = [t \in Tasks |-> IdleTask]
    /\ last_upserted = EmptyDict
    /\ prev_run = [tracking |-> FALSE, run |-> None]
    /\ calls = <<>>
    /\ tiktok_access_token = ConfiguredToken
    /\ oauth_tokens = {}
    /\ remote_products = <<>>
    /\ products = {}

\* a minute passes
Tick ==
    /\ clock < Now0 + MaxClock
    /\ clock' = clock + 1
    /\ UNCHANGED <<utcoffset, remote, orders, sync_metadata, task,
                   last_upserted, prev_run, calls,
                   tiktok_access_token, oauth_tokens, remote_products, products>>

\* a buyer places an order in the shop
RemoteCreate(shape) ==
    /\ Len(remote) < MaxOrders
    /\ remote' = Append(remote, remote_order(Len(remote) + 1, shape, clock, "UNPAID"))
    /\ UNCHANGED <<clock, utcoffset, orders, sync_metadata, task,
                   last_upserted, prev_run, calls,
                   tiktok_access_token, oauth_tokens, remote_products, products>>

\* a (well formed) order of the shop changes status
RemoteUpdate(i) ==
    /\ Get(remote[i], "id") /= None
    /\ Get(remote[i], "create_time") /= None
    /\ Get(remote[i], "order_status") = Some("UNPAID")
    /\ remote' = [remote EXCEPT ![i] = Put(@, "order_status", Some("COMPLETED"))]
    /\ UNCHANGED <<clock, utcoffset, orders, sync_metadata, task,
                   last_upserted, prev_run, calls,
                   tiktok_access_token, oauth_tokens, remote_products, products>>

\* a sync endpoint (/api/sync/orders, /api/sync/orders/full or
\* /api/sync/trigger) finds an access token; sync_orders_task is entered and
\* runs to its first await or to an exception
StartPass(t, max_orders, force_full_sync) ==
    /\ task[t].pc = "idle"
    /\ \E token_record \in first(oauth_tokens) :
        LET access_token == endpoint_access_token(token_record) IN
        /\ TruthyStr(access_token)
        /\ LET mode == select_mode(force_full_sync, sync_metadata)
               tk == [IdleTask EXCEPT
                                  !.access_token = access_token[1],
                                  !.client = TikTokShopClient(access_token),
                                  !.max_orders = max_orders,
                                  !.force_full_sync = force_full_sync,
                                  !.start_time = mode.start_time,
                                  !.end_time = mode.end_time,
                                  !.is_full_sync = mode.is_full_sync,
                                  !.entered = Some(utcnow),
                                  !.meta_at_entry = sync_metadata,
                                  !.orders_at_entry = orders,
                                  !.prev_at_entry = prev_run.run]
               after == call_get_orders(tk)
           IN /\ task' = [task EXCEPT ![t] = after]
              /\ prev_run' = note_run(after)
    /\ UNCHANGED <<clock, utcoffset, remote, orders, sync_metadata,
                   last_upserted, calls,
                   tiktok_access_token, oauth_tokens, remote_products, products>>

\* the awaited HTTP call raises: transport error, timeout (30 s) or
\* raise_for_status on an error status
FetchRaises(t) ==
    /\ task[t].pc = "awaiting"
    /\ task' = [task EXCEPT ![t] = raise(@, "HTTPError")]
    /\ prev_run' = note_run(task'[t])
    /\ UNCHANGED <<clock, utcoffset, remote, orders, sync_metadata,
                   last_upserted, calls,
                   tiktok_access_token, oauth_tokens, remote_products, products>>

\* the awaited HTTP call returns a response; the pass runs on to its next
\* await or to its end
FetchReturns(t, response, page_commit_ok, meta_commit_ok) ==
    /\ task[t].pc = "awaiting"
    /\ LET r == on_response(task[t], response, orders, sync_metadata,
                            page_commit_ok, meta_commit_ok)
       IN /\ task' = [task EXCEPT ![t] = r.tk]
          /\ orders' = r.orders
          /\ sync_metadata' = r.meta
          /\ last_upserted' =
                 note_upserts(last_upserted,
                              SubSeq(r.tk.committed, Len(task[t].committed) + 1,
                                     Len(r.tk.committed)))
          /\ prev_run' = note_run(r.tk)
    /\ UNCHANGED <<clock, utcoffset, remote, calls,
                   tiktok_access_token, oauth_tokens, remote_products, products>>

\* an upstream that puts at most cap records in a page answers the
\* outstanding request with a page
ReceivePageOf(t, cap) ==
    \E page_commit_ok, meta_commit_ok \in BOOLEAN :
        /\ task[t].pc = "awaiting"
        /\ FetchReturns(t, upstream_response(Last(task[t].requests), cap),
                        page_commit_ok, meta_commit_ok)

\* upstream answers the outstanding request with a page
ReceivePage(t) == ReceivePageOf(t, UpstreamPageCap)

\* upstream answers the outstanding request with a non-zero code
ReceiveError(t) ==
    \E meta_commit_ok \in BOOLEAN :
        FetchReturns(t, upstream_error, TRUE, meta_commit_ok)

\* the endpoint returns the count to its caller, or the exception reaches
\* the framework; the coroutine is gone
EndPass(t) ==
    /\ task[t].pc \in {"done", "failed", "cancelled"}
    /\ task' = [task EXCEPT ![t] = IdleTask]
    /\ UNCHANGED <<clock, utcoffset, remote, orders, sync_metadata,
                   last_upserted, prev_run, calls,
                   tiktok_access_token, oauth_tokens, remote_products, products>>

\* max_orders / max_records values a caller supplies
Caps == {None} \cup {Some(n) : n \in 1..MaxCap}

\* no pass for the orders domain is in flight
NoPassInFlight == \A t \in Tasks : task[t].pc = "idle"

\* the handler slot a new request takes: the first free one
FreeSlot(t) == task[t].pc = "idle" /\ \A u \in Tasks : u < t => task[u].pc /= "idle"

\* no handler stands between the end of its pass and its return: the
\* code after the final commit (or the rollback) holds no await, so the
\* return follows at once
NoPassEnded == \A t \in Tasks : task[t].pc \in {"idle", "awaiting"}

\* what happens outside the server while its handlers are idle or
\* suspended
Environment ==
    /\ NoPassEnded
    /\ \/ Tick
       \/ \E shape \in Shapes : RemoteCreate(shape)
       \/ \E i \in 1..Len(remote) : RemoteUpdate(i)

Pass(t) ==
    \/ FetchRaises(t)
    \/ ReceivePage(t)
    \/ ReceiveError(t)
    \/ EndPass(t)

\* triggers are serialised per domain by the caller: a pass starts only
\* when none is in flight
Next ==
    \/ Environment
    \/ \E t \in Tasks :
           \/ \E max_orders \in Caps, force_full_sync \in BOOLEAN :
                  /\ NoPassInFlight
                  /\ FreeSlot(t)
                  /\ StartPass(t, max_orders, force_full_sync)
           \/ Pass(t)

Spec == Init /\ [][Next]_vars

(* -------------------- passes over an unchanging shop ------------------- *)

\* the shops the server can be started against: one to MaxOrders orders,
\* placed before the server started
Shops ==
    UNION { { [i \in 1..n |-> remote_order(i, shape[i], Now0, status[i])] :
                shape \in [1..n -> Shapes], status \in [1..n -> Statuses] } :
            n \in 1..MaxOrders }

InitTwice ==
    /\ clock = Now0
    /\ utcoffset \in UtcOffsets
    /\ remote \in Shops
    /\ orders = {}
    /\ sync_metadata = {}
    /\ task = [t \in Tasks |-> IdleTask]
    /\ last_upserted = EmptyDict
    /\ prev_run = [tracking |-> TRUE, run |-> None]
    /\ calls = <<>>
    /\ tiktok_access_token = ConfiguredToken
    /\ oauth_tokens = {}
    /\ remote_products = <<>>
    /\ products = {}

\* as Next, with no change upstream and no request refused
NextTwice ==
    \/ Tick
    \/ \E t \in Tasks :
           \/ \E max_orders \in Caps, force_full_sync \in BOOLEAN :
                  /\ NoPassInFlight
                  /\ FreeSlot(t)
                  /\ StartPass(t, max_orders, force_full_sync)
           \/ FetchRaises(t)
           \/ ReceivePage(t)
           \/ EndPass(t)

SpecTwice == InitTwice /\ [][NextTwice]_vars

(* ------------------------------ properties ----------------------------- *)

\* C1: a pass that ends by raising leaves the sync_metadata table exactly
\* as it was when the pass began.
C1_FailedPassKeepsWatermark ==
    \A t \in Tasks :
        task[t].pc = "failed" => sync_metadata = task[t].meta_at_entry

\* a pass that found a watermark, committed a page and then raised
C1_Witness ==
    \E t \in Tasks :
        /\ task[t].pc = "failed"
        /\ task[t].meta_at_entry /= {}
        /\ task[t].committed /= <<>>

\* every record of the pages handler t committed has a row in tbl
PagesStored(t, tbl) ==
    \A i \in 1..Len(task[t].committed) :
        \E r \in tbl : r.id = Get(task[t].committed[i], "id")

\* C2: when the awaited fetch raises after N pages were processed, the
\* records of those pages are stored, the watermark is the one found at
\* entry, and the pass ends with the exception raised to its caller.
C2_FetchFailureKeepsPages ==
    [][\A t \in Tasks :
           FetchRaises(t) =>
               /\ PagesStored(t, orders')
               /\ sync_metadata' = task[t].meta_at_entry
               /\ task'[t].pc = "failed"
               /\ task'[t].error = "HTTPError"
               /\ task'[t].returned = None]_vars

\* a fetch that raised after at least one page was committed
C2_Witness ==
    \E t \in Tasks :
        /\ task[t].pc = "failed"
        /\ task[t].error = "HTTPError"
        /\ task[t].committed /= <<>>

\* C3: a pass whose last response carried a non-zero code has ended by
\* raising, with the watermark as it was at entry.
C3_ErrorCodeAborts ==
    \A t \in Tasks :
        (task[t].responses /= <<>> /\ Last(task[t].responses)["code"] /= 0)
            => /\ task[t].pc = "failed"
               /\ sync_metadata = task[t].meta_at_entry

\* the watermark fields other than last_sync_time
WatermarkButSyncTime(tbl) ==
    { [ sync_type |-> m.sync_type, last_record_time |-> m.last_record_time,
        records_synced |-> m.records_synced, is_full_sync |-> m.is_full_sync ] :
      m \in tbl }

\* C4: a pass run with the arguments of the pass before it, which ended
\* normally, against the same upstream data, leaves the number of stored
\* orders and the watermark (last_sync_time aside) as that pass left them.
C4_SecondRunChangesNothing ==
    \A t \in Tasks :
        (task[t].pc \in {"done", "failed"}
             /\ task[t].prev_at_entry = Some(args_of(task[t])))
            => /\ Cardinality(orders) = Cardinality(task[t].orders_at_entry)
               /\ WatermarkButSyncTime(sync_metadata)
                      = WatermarkButSyncTime(task[t].meta_at_entry)

C6_IncrementalWindowSent ==
    \A t \in Tasks :
        (task[t].pc /= "idle" /\ ~task[t].is_full_sync) =>
            /\ task[t].requests /= <<>>
            /\ \A i \in 1..Len(task[t].requests) :
                   LET body == task[t].requests[i].json[1] IN
                   \E m \in task[t].meta_at_entry :
                       /\ "create_time_from" \in DOMAIN body
                       /\ body["create_time_from"] = m.last_sync_time - OverlapMinutes
                       /\ "create_time_to" \in DOMAIN body
                       /\ Some(body["create_time_to"]) = task[t].end_time

\* C7: the orders table has one row per id, and the row of an id holds the
\* fields of the upstream record last upserted and committed under that id.
C7_UpsertById ==
    /\ \A r1, r2 \in orders : r1.id = r2.id => r1 = r2
    /\ \A r \in orders :
           /\ r.id \in DOMAIN last_upserted
           /\ r = new_order(transform_order(last_upserted[r.id]))
    /\ \A id \in DOMAIN last_upserted : \E r \in orders : r.id = id

\* a pass has overwritten a row that was stored when it began
C7_Witness ==
    \E t \in Tasks : \E r0 \in task[t].orders_at_entry : \E r \in orders :
        r.id = r0.id /\ r.status /= r0.status

\* C8: the first request of a pass has no page_token, each later one has
\* the next_page_token of the response before it, and none has a page
\* number or an offset.
C8_TokenPagination ==
    \A t \in Tasks :
        \A i \in 1..Len(task[t].requests) :
            LET req == task[t].requests[i] IN
            /\ i = 1 => "page_token" \notin DOMAIN req.params
            /\ i > 1 =>
                   /\ "page_token" \in DOMAIN req.params
                   /\ Some(req.params["page_token"])
                          = Get(task[t].responses[i - 1]["data"], "next_page_token")
            /\ {"page_number", "page", "offset"}
                   \cap (DOMAIN req.params \cup DOMAIN req.json[1]) = {}

\* a pass that has sent its second request
C8_Witness == \E t \in Tasks : Len(task[t].requests) >= 2

\* C9: a pass ends normally only after a page with no records, a response
\* with no continuation token, or once max_orders records were upserted.
C9_NormalEndOnlyAtLastPageOrCap ==
    \A t \in Tasks :
        task[t].pc = "done" =>
            LET response == Last(task[t].responses)
                data == GetOr(response, "data", EmptyDict)
            IN /\ response["code"] = 0
               /\ \/ GetOr(data, "orders", <<>>) = <<>>
                  \/ Get(data, "next_page_token") = None
                  \/ /\ task[t].max_orders /= None
                     /\ Len(task[t].committed) >= task[t].max_orders[1]

\* C10: the step that ends a pass normally leaves one orders watermark,
\* with last_sync_time the time of that step, records_synced the number of
\* records the pass upserted, and is_full_sync 1 when the pass was forced
\* or found no watermark, 0 otherwise.
C10_WatermarkOnNormalEnd ==
    [][\A t \in Tasks :
           (task[t].pc /= "done" /\ task'[t].pc = "done") =>
               /\ Cardinality(sync_metadata') = 1
               /\ \A m \in sync_metadata' :
                      /\ m.sync_type = "orders"
                      /\ m.last_sync_time = clock'
                      /\ m.records_synced = Len(task'[t].committed)
                      /\ m.is_full_sync =
                             IF task[t].force_full_sync \/ task[t].meta_at_entry = {}
                             THEN 1 ELSE 0]_vars

\* a pass that found a watermark of an earlier pass with records, upserted
\* records and ended normally
C10_Witness ==
    \E t \in Tasks :
        /\ task[t].pc = "done"
        /\ task[t].committed /= <<>>
        /\ \E m \in task[t].meta_at_entry : m.records_synced > 0

\* the largest element of a non-empty set of integers
MaxOf(S) == CHOOSE x \in S : \A y \in S : y <= x

\* create_time (Unix time) of the newest record among those a pass upserted
\* and committed
NewestCommitted(t) ==
    MaxOf({task[t].committed[i]["create_time"][1] : i \in 1..Len(task[t].committed)})

\* C11: a pass that upserted records and ended normally leaves
\* last_record_time at the creation time of the newest of those records
\* (as the stored created_time, or as the UTC reading of create_time).
C11_LastRecordTimeIsNewestRecord ==
    \A t \in Tasks :
        (task[t].pc = "done" /\ task[t].committed /= <<>>) =>
            \A m \in sync_metadata :
                m.last_record_time \in { Some(fromtimestamp(NewestCommitted(t))),
                                         Some(NewestCommitted(t)) }

(* ---------------- passes over an upstream with longer pages ------------ *)

\* the shops the server can be started against: up to MaxOrders + 1 unpaid
\* orders of any shape, placed before the server started
PagedShops ==
    UNION { { [i \in 1..n |-> remote_order(i, shape[i], Now0, "UNPAID")] :
                shape \in [1..n -> Shapes] } :
            n \in 1..(MaxOrders + 1) }

InitPaged ==
    /\ clock = Now0
    /\ utcoffset \in UtcOffsets
    /\ remote \in PagedShops
    /\ orders = {}
    /\ sync_metadata = {}
    /\ task = [t \in Tasks |-> IdleTask]
    /\ last_upserted = EmptyDict
    /\ prev_run = [tracking |-> FALSE, run |-> None]
    /\ calls = <<>>
    /\ tiktok_access_token = ConfiguredToken
    /\ oauth_tokens = {}
    /\ remote_products = <<>>
    /\ products = {}

\* cancel that undoes the whole pass, not only what was left uncommitted
cancel_undoing_pass(tk, stored, meta) ==
    [ tk |-> [tk EXCEPT !.pc = "cancelled", !.error = "CancelledError"],
      orders |-> tk.orders_at_entry, meta |-> meta ]

\* asyncio.CancelledError raised at the await of line 77: it is no
\* Exception, so "except Exception" lets it pass with no rollback; the
\* session holds nothing uncommitted at that await (the last statement
\* before it that wrote was the commit of line 124), and closing it leaves
\* the stored tables as they are
cancel(tk, stored, meta) ==
    [ tk |-> [tk EXCEPT !.pc = "cancelled", !.error = "CancelledError"],
      orders |-> stored, meta |-> meta ]

\* the handler is cancelled while it awaits the HTTP call
Cancel(t) ==
    /\ task[t].pc = "awaiting"
    /\ LET r == cancel(task[t], orders, sync_metadata)
       IN /\ task' = [task EXCEPT ![t] = r.tk]
          /\ orders' = r.orders
          /\ sync_metadata' = r.meta
    /\ UNCHANGED <<clock, utcoffset, remote, last_upserted, prev_run, calls,
                   tiktok_access_token, oauth_tokens, remote_products, products>>

\* as Next, with no change upstream, pages of up to MaxPage records and
\* handlers that can be cancelled
NextPaged ==
    \/ Tick
    \/ \E t \in Tasks :
           \/ \E max_orders \in Caps, force_full_sync \in BOOLEAN :
                  /\ NoPassInFlight
                  /\ FreeSlot(t)
                  /\ StartPass(t, max_orders, force_full_sync)
           \/ FetchRaises(t)
           \/ \E cap \in 1..MaxPage : ReceivePageOf(t, cap)
           \/ ReceiveError(t)
           \/ Cancel(t)
           \/ EndPass(t)

SpecPaged == InitPaged /\ [][NextPaged]_vars

(* ------------------------ properties, continued ------------------------ *)

\* an upstream record with an id and a creation time
WellFormed(raw_order) ==
    Get(raw_order, "id") /= None /\ Get(raw_order, "create_time") /= None

\* a first run (no watermark) whose first response held 2 records and a
\* continuation token and whose second held 1 record and no token
EndToEndPages(tk) ==
    /\ tk.meta_at_entry = {}
    /\ Len(tk.responses) >= 2
    /\ LET r1 == tk.responses[1]
           r2 == tk.responses[2]
       IN /\ r1["code"] = 0 /\ r2["code"] = 0
          /\ Len(r1["data"]["orders"]) = 2
          /\ Get(r1["data"], "next_page_token") /= None
          /\ Len(r2["data"]["orders"]) = 1
          /\ Get(r2["data"], "next_page_token") = None
          /\ WellFormed(r2["data"]["orders"][1])

\* C12: in that run the pass sent exactly two requests, the second with the
\* token of the first response, and ended; unless the database refused a
\* commit it ended normally, with 3 records upserted and stored and the
\* watermark records_synced = 3, is_full_sync = 1.
C12_EndToEndTwoPages ==
    \A t \in Tasks :
        EndToEndPages(task[t]) =>
            LET tk == task[t] IN
            /\ Len(tk.requests) = 2
            /\ "page_token" \notin DOMAIN tk.requests[1].params
            /\ "page_token" \in DOMAIN tk.requests[2].params
            /\ Some(tk.requests[2].params["page_token"])
                   = tk.responses[1]["data"]["next_page_token"]
            /\ tk.pc \in {"done", "failed"}
            /\ tk.pc = "failed" => tk.error = "OperationalError"
            /\ tk.pc = "done" =>
                   /\ tk.returned = Some(3)
                   /\ Len(tk.committed) = 3
                   /\ Cardinality(orders) = 3
                   /\ PagesStored(t, orders)
                   /\ Cardinality(sync_metadata) = 1
                   /\ \A m \in sync_metadata :
                          /\ m.sync_type = "orders"
                          /\ m.records_synced = 3
                          /\ m.is_full_sync = 1

\* the two-page first run has ended normally
C12_Witness ==
    \E t \in Tasks : EndToEndPages(task[t]) /\ task[t].pc = "done"

\* C13: a pass given a record cap has upserted and committed at most that
\* many records.
C13_CapNeverExceeded ==
    \A t \in Tasks :
        task[t].max_orders /= None =>
            Len(task[t].committed) <= task[t].max_orders[1]

\* C15: a pass cancelled at an await leaves the watermark as it was when the
\* pass began and the records of the pages it committed stored.
C15_CancelKeepsWatermarkAndPages ==
    \A t \in Tasks :
        task[t].pc = "cancelled" =>
            /\ sync_metadata = task[t].meta_at_entry
            /\ PagesStored(t, orders)
            /\ task[t].returned = None

\* a pass that found a watermark, committed a page and was cancelled at its
\* next await
C15_Witness ==
    \E t \in Tasks :
        /\ task[t].pc = "cancelled"
        /\ task[t].meta_at_entry /= {}
        /\ task[t].committed /= <<>>

\* C16: a page that held a record with no id did not make the pass raise on
\* that record: the record has no row, and the well-formed records of the
\* page are stored unless the database refused the commit.
C16_MalformedRecordSkipped ==
    \A t \in Tasks :
        \A i \in 1..Len(task[t].responses) :
            LET response == task[t].responses[i]
                page == GetOr(GetOr(response, "data", EmptyDict), "orders", <<>>)
            IN (\E j \in 1..Len(page) : Get(page[j], "id") = None) =>
                   /\ task[t].error \notin {"IntegrityError", "TypeError"}
                   /\ \A r \in orders : r.id /= None
                   /\ task[t].error /= "OperationalError" =>
                          \A j \in 1..Len(page) :
                              WellFormed(page[j]) =>
                                  \E r \in orders : r.id = Get(page[j], "id")

(* ---------------- triggers that nothing serialises --------------------- *)

\* the shops the server can be started against: one to MaxOrders well
\* formed unpaid orders, placed before the server started
PlainShops ==
    { [i \in 1..n |-> remote_order(i, "ok", Now0, "UNPAID")] : n \in 1..MaxOrders }

InitConcurrent ==
    /\ clock = Now0
    /\ utcoffset \in UtcOffsets
    /\ remote \in PlainShops
    /\ orders = {}
    /\ sync_metadata = {}
    /\ task = [t \in Tasks |-> IdleTask]
    /\ last_upserted = EmptyDict
    /\ prev_run = [tracking |-> FALSE, run |-> None]
    /\ calls = <<>>
    /\ tiktok_access_token = ConfiguredToken
    /\ oauth_tokens = {}
    /\ remote_products = <<>>
    /\ products = {}

\* the endpoints as the server runs them: each request gets a handler of
\* its own on the event loop, whatever other handlers are suspended
NextConcurrent ==
    \E t \in Tasks :
        \/ \E max_orders \in Caps, force_full_sync \in BOOLEAN :
               /\ FreeSlot(t)
               /\ StartPass(t, max_orders, force_full_sync)
        \/ FetchRaises(t)
        \/ ReceivePage(t)
        \/ EndPass(t)

SpecConcurrent == InitConcurrent /\ [][NextConcurrent]_vars

\* the handlers whose pass is in flight (entered and not yet ended)
InFlight == {t \in Tasks : task[t].pc = "awaiting"}

\* C14: at most one orders pass is in flight.
C14_AtMostOnePassInFlight == Cardinality(InFlight) <= 1

(* --------------------- direct calls of _make_request ------------------- *)

\* HTTP methods a caller names: the two _make_request supports and one it
\* does not
Methods == {"GET", "POST", "PUT"}

\* endpoint paths a caller names
Paths == {"/order/202309/orders/search"}

\* a params dict as an earlier call of _make_request left it: app_key,
\* sign, timestamp and access_token written after the caller's items, in
\* that order, a second before the server started
LeftByEarlierCall(items) ==
    items \o << <<"app_key", tiktok_app_key>>,
                <<"sign", hmac_sha256_hex(tiktok_app_secret, "earlier")>>,
                <<"timestamp", ToString(Now0 - 1)>>,
                <<"access_token", TikTokShopClient(None).access_token>> >>

\* params a caller hands over: none, an empty dict, page_size and version
\* in either insertion order, and a dict it used for an earlier call
CallerParams ==
    LET page_size == <<"page_size", OrdersPageSizeCap>>
        version == <<"version", "202309">>
    IN { None, Some(<<>>),
         Some(<<page_size, version>>),
         Some(<<version, page_size>>),
         Some(LeftByEarlierCall(<<page_size, version>>)) }

\* bodies a caller hands over: none, an empty dict, a status filter
CallerBodies == { None, Some(EmptyDict), Some(get_orders_body(Some("UNPAID"))) }

InitClient ==
    /\ clock = Now0
    /\ utcoffset \in UtcOffsets
    /\ remote = <<>>
    /\ orders = {}
    /\ sync_metadata = {}
    /\ task = [t \in Tasks |-> IdleTask]
    /\ last_upserted = EmptyDict
    /\ prev_run = [tracking |-> FALSE, run |-> None]
    /\ calls = <<>>
    /\ tiktok_access_token = ConfiguredToken
    /\ oauth_tokens = {}
    /\ remote_products = <<>>
    /\ products = {}

\* _make_request is called and runs to the await of the HTTP call, or to
\* the ValueError of an unsupported method
MakeRequest(method, path, params, body) ==
    /\ \E separators \in IF httpx_content(method, body, <<",", ":">>) \in {"", "{}"}
                          THEN {<<",", ":">>} ELSE HttpxSeparators :
        LET out == make_request(TikTokShopClient(None), method, path, params, body)
            call == [ method |-> method, path |-> path, params |-> params,
                      body |-> body, out |-> out,
                      sent |-> ~make_request_raises(method),
                      content |-> IF make_request_raises(method) THEN None
                                  ELSE Some(httpx_content(method, body, separators)) ]
        IN calls' = IF calls = <<>> THEN <<call>> ELSE <<Last(calls), call>>
    /\ UNCHANGED <<clock, utcoffset, remote, orders, sync_metadata, task,
                   last_upserted, prev_run,
                   tiktok_access_token, oauth_tokens, remote_products, products>>

NextClient ==
    \/ Tick
    \/ \E method \in Methods, path \in Paths, params \in CallerParams,
          body \in CallerBodies :
           MakeRequest(method, path, params, body)

SpecClient == InitClient /\ [][NextClient]_vars

\* the key/value pairs of the params a call was handed, whatever their
\* insertion order
PairsOf(call) ==
    IF call.params = None THEN {}
    ELSE {call.params[1][i] : i \in DOMAIN call.params[1]}

\* two calls with the same path, signed at the same timestamp
SamePathAndTime(c1, c2) ==
    c1.path = c2.path /\ c1.out.timestamp = c2.out.timestamp

\* C17: two calls with the same path, body string and timestamp whose params
\* hold the same key/value pairs get the same signature, whatever the
\* insertion order of the pairs.
C17_SignatureIgnoresInsertionOrder ==
    \A i, j \in DOMAIN calls :
        (/\ SamePathAndTime(calls[i], calls[j])
         /\ calls[i].out.body_str = calls[j].out.body_str
         /\ PairsOf(calls[i]) = PairsOf(calls[j]))
            => calls[i].out.signature = calls[j].out.signature

\* two such calls whose params were inserted in different orders
C17_Witness ==
    \E i, j \in DOMAIN calls :
        /\ SamePathAndTime(calls[i], calls[j])
        /\ calls[i].out.body_str = calls[j].out.body_str
        /\ PairsOf(calls[i]) = PairsOf(calls[j])
        /\ calls[i].params /= calls[j].params
        /\ Cardinality(PairsOf(calls[i])) >= 2

\* a POST call with no logical body: body=None or body={}
EmptyBodyPost(call) ==
    call.method = "POST" /\ (call.body = None \/ call.body = Some(EmptyDict))

\* C18: a POST with body None or {} signs path + parameters + "{}", and two
\* such calls with the same path, params and timestamp get the same
\* signature.
C18_EmptyBodySignedAsBraces ==
    /\ \A i \in DOMAIN calls :
           EmptyBodyPost(calls[i]) =>
               /\ calls[i].out.body_str = "{}"
               /\ calls[i].out.request.signed
                      = calls[i].path \o calls[i].out.param_str \o "{}"
    /\ \A i, j \in DOMAIN calls :
           (/\ EmptyBodyPost(calls[i]) /\ EmptyBodyPost(calls[j])
            /\ SamePathAndTime(calls[i], calls[j])
            /\ calls[i].params = calls[j].params)
               => calls[i].out.signature = calls[j].out.signature

\* a POST with body None and one with body {}, otherwise the same
C18_Witness ==
    \E i, j \in DOMAIN calls :
        /\ EmptyBodyPost(calls[i]) /\ EmptyBodyPost(calls[j])
        /\ SamePathAndTime(calls[i], calls[j])
        /\ calls[i].params = calls[j].params
        /\ calls[i].body = None
        /\ calls[j].body = Some(EmptyDict)

\* C19: the parameters a call signed hold neither sign nor access_token.
C19_SignAndTokenNotSigned ==
    \A i \in DOMAIN calls :
        Keys(calls[i].out.params_for_sign) \cap {"sign", "access_token"} = {}

\* C20: a request that was sent is a GET or a POST, has app_key, timestamp
\* and sign (those the call computed) in its query parameters and the
\* client's access token in its x-tts-access-token header.
C20_RequestCarriesCredentials ==
    \A i \in DOMAIN calls :
        calls[i].sent =>
            LET req == calls[i].out.request IN
            /\ req.method \in {"GET", "POST"}
            /\ {"app_key", "timestamp", "sign"} \subseteq DOMAIN req.params
            /\ req.params["app_key"] = tiktok_app_key
            /\ req.params["timestamp"] = calls[i].out.timestamp
            /\ req.params["sign"] = calls[i].out.signature
            /\ "x-tts-access-token" \in DOMAIN req.headers
            /\ req.headers["x-tts-access-token"] = TikTokShopClient(None).access_token

\* a GET and a POST were sent
C20_Witness ==
    \E i, j \in DOMAIN calls :
        /\ calls[i].sent /\ calls[i].method = "GET"
        /\ calls[j].sent /\ calls[j].method = "POST"

\* key + str(value) of every item whose key is in order, concatenated in
\* that order
RECURSIVE ConcatInOrder(_, _)
ConcatInOrder(items, order) ==
    IF order = <<>> THEN ""
    ELSE (IF Head(order) \in Keys(items)
          THEN Head(order) \o str(Head(order), Value(items, Head(order)))
          ELSE "")
         \o ConcatInOrder(items, Tail(order))

\* C21: the string a call signs is app_secret + path + P + body + app_secret,
\* P being key + str(value) of every signed parameter in ascending key
\* order, the injected timestamp among them; the signature is the HMAC of
\* that string under app_secret.
C21_SignedStringLayout ==
    \A i \in DOMAIN calls :
        LET c == calls[i] IN
        /\ "timestamp" \in Keys(c.out.params_for_sign)
        /\ Value(c.out.params_for_sign, "timestamp") = c.out.timestamp
        /\ c.out.wrapped_string
               = tiktok_app_secret \o c.path
                 \o ConcatInOrder(c.out.params_for_sign, ParamKeyOrder)
                 \o c.out.body_str \o tiktok_app_secret
        /\ c.out.signature = hmac_sha256_hex(tiktok_app_secret, c.out.wrapped_string)

\* a POST with a body was signed whose params the caller inserted in
\* descending key order
C21_Witness ==
    \E i \in DOMAIN calls :
        /\ calls[i].method = "POST"
        /\ calls[i].body = Some(get_orders_body(Some("UNPAID")))
        /\ calls[i].params = Some(<< <<"version", "202309">>,
                                    <<"page_size", OrdersPageSizeCap>> >>)
        /\ calls[i].out.wrapped_string
               = "appsecret/order/202309/orders/searchapp_keyappkeypage_size50"
                 \o "timestamp1000version202309{\"order_status\":\"UNPAID\"}appsecret"

\* C22: the body string a POST signs is the body the request transmits.
C22_SignedBodyIsSentBody ==
    \A i \in DOMAIN calls :
        (calls[i].method = "POST" /\ calls[i].content /= None)
            => calls[i].out.body_str = calls[i].content[1]

\* C28: the parameters a sent call signed are the query parameters it
\* transmits without sign and access_token, each with the value transmitted;
\* in particular the timestamp signed is the timestamp transmitted.
C28_SignedParamsAreSentParams ==
    \A i \in DOMAIN calls :
        calls[i].sent =>
            LET req == calls[i].out.request
                signed == calls[i].out.params_for_sign
            IN /\ Keys(signed) = DOMAIN req.params \ {"sign", "access_token"}
               /\ \A k \in Keys(signed) :
                      k \in DOMAIN req.params
                          => Value(signed, k) = req.params[k]
               /\ req.params["timestamp"] = Value(signed, "timestamp")

\* page sizes a caller of get_orders may ask for: below, at and above the cap
RequestedPageSizes == {1, OrdersPageSizeCap, OrdersPageSizeCap + 1, SyncPageSize}

\* C29: every order-search request carries a page_size of at most 50,
\* whatever page size the caller asked for (and the size asked for when that
\* is at most 50).
C29_PageSizeCapped ==
    /\ \A t \in Tasks : \A k \in DOMAIN task[t].requests :
           task[t].requests[k].params["page_size"] <= OrdersPageSizeCap
    /\ \A page_size \in RequestedPageSizes :
           LET sent == Value(get_orders_params(page_size, None, "create_time", "DESC"),
                             "page_size")
           IN sent <= OrdersPageSizeCap
              /\ (page_size <= OrdersPageSizeCap => sent = page_size)

\* a pass that asks for 100 records a page has sent two requests, each for 50
C29_Witness ==
    \E t \in Tasks :
        /\ SyncPageSize > OrdersPageSizeCap
        /\ Len(task[t].requests) >= 2
        /\ \A k \in DOMAIN task[t].requests :
               task[t].requests[k].params["page_size"] = OrdersPageSizeCap

\* the upstream orders in the fetch window of a pass: those its first
\* request selects
WindowOf(tk) ==
    LET json == tk.requests[1].json
        body == IF json = None THEN EmptyDict ELSE json[1]
    IN {i \in DOMAIN remote : in_window(remote[i], body)}

\* every response the pass read had code 0
AllPagesRead(tk) == \A k \in DOMAIN tk.responses : tk.responses[k]["code"] = 0

\* C23: when a pass has advanced the watermark, every (well formed) upstream
\* order of its fetch window is in the orders table (upstream does not change during the
\* passes checked, so the window is the one at entry). Stated for the
\* passes that read every page they asked for; a pass that was refused a
\* page advances the watermark as well (C3).
C23_WatermarkOnlyAfterWholeWindow ==
    \A t \in Tasks :
        (/\ task[t].pc = "done"
         /\ sync_metadata /= task[t].meta_at_entry
         /\ AllPagesRead(task[t])) =>
            \A i \in WindowOf(task[t]) :
                WellFormed(remote[i])
                    => query_order(orders, Get(remote[i], "id")) /= {}

(* --------------------------- passes that take long --------------------- *)

\* a pass is held up for longer than the overlap: httpx's timeout of 30 s
\* bounds each network operation, not the call, and nothing bounds the
\* number of pages or the database work of a pass
LongWait ==
    /\ clock < Now0 + MaxClock
    /\ clock' = clock + OverlapMinutes + 1
    /\ UNCHANGED <<utcoffset, remote, orders, sync_metadata, task,
                   last_upserted, prev_run, calls,
                   tiktok_access_token, oauth_tokens, remote_products, products>>

\* as NextConcurrent for serialised passes, with time passing in minutes
\* and in long waits
NextLong ==
    \/ Tick
    \/ LongWait
    \/ \E t \in Tasks :
           \/ \E max_orders \in Caps, force_full_sync \in BOOLEAN :
                  /\ NoPassInFlight
                  /\ FreeSlot(t)
                  /\ StartPass(t, max_orders, force_full_sync)
           \/ FetchRaises(t)
           \/ ReceivePage(t)
           \/ EndPass(t)

SpecLong == InitConcurrent /\ [][NextLong]_vars

\* the end of the fetch window of a pass: end_time when it set one, else
\* (full sync, newest first) the time of its first request, which its entry
\* sends
WindowEnd(tk) == IF tk.end_time /= None THEN tk.end_time[1] ELSE tk.entered[1]

\* C24: when a pass has ended normally, the window the next incremental pass
\* will ask for (from the watermark the pass wrote) starts no later than the
\* window of the pass ended.
C24_NextWindowStartsInsidePrevious ==
    \A t \in Tasks :
        (task[t].pc = "done" /\ sync_metadata /= task[t].meta_at_entry) =>
            select_mode(FALSE, sync_metadata).start_time[1] <= WindowEnd(task[t])

(* ------------------- passes against an upstream that answers ----------- *)

\* upstream answers the outstanding request with code 0 and a page, and
\* the database takes every commit
Answer(t) ==
    /\ task[t].pc = "awaiting"
    /\ FetchReturns(t, upstream_response(Last(task[t].requests), UpstreamPageCap),
                    TRUE, TRUE)

\* serialised passes against an upstream that does not change and answers
\* every call with code 0
NextLive ==
    \/ Tick
    \/ \E t \in Tasks :
           \/ \E max_orders \in Caps, force_full_sync \in BOOLEAN :
                  /\ NoPassInFlight
                  /\ FreeSlot(t)
                  /\ StartPass(t, max_orders, force_full_sync)
           \/ Answer(t)
           \/ EndPass(t)

\* every awaited call is answered, and a coroutine that has ended returns:
\* the event loop resumes a coroutine whose await has completed. The second
\* conjunct is WF_vars(Answer(t)) with ENABLED <<Answer(t)>>_vars written
\* out: Answer(t) is enabled exactly when the task awaits, and every
\* Answer(t) step changes the task (it appends the response)
SpecLive ==
    /\ InitConcurrent
    /\ [][NextLive]_vars
    /\ \A t \in Tasks :
           /\ WF_vars(EndPass(t))
           /\ ([]<>(task[t].pc /= "awaiting") \/ []<><<Answer(t)>>_vars)

\* C25: against such an upstream no pass, full or incremental, ends with an
\* exception, every pass that awaits upstream goes on to end normally, and a
\* pass that ended normally has left the watermark row.
C25_EveryPassEndsNormally ==
    \A t \in Tasks :
        /\ [](task[t].pc /= "failed")
        /\ (task[t].pc = "awaiting") ~> (task[t].pc = "done")
        /\ [](task[t].pc = "done" =>
                  \E m \in sync_metadata : m.sync_type = "orders")

\* the records of the pages in the first n responses of a pass
RECURSIVE PagesOf(_, _)
PagesOf(tk, n) ==
    IF n = 0 THEN <<>>
    ELSE PagesOf(tk, n - 1)
         \o GetOr(GetOr(tk.responses[n], "data", EmptyDict), "orders", <<>>)

\* C26: a pass has at most one page request outstanding; when it has sent
\* request k+1, every record of the pages 1..k is upserted and committed;
\* and when it has written the watermark it has no request outstanding and
\* every record of every page it read is upserted and committed.
C26_OnePageAtATime ==
    \A t \in Tasks :
        LET tk == task[t] IN
        tk.pc /= "idle" =>
            /\ Len(tk.responses) <= Len(tk.requests)
            /\ Len(tk.requests) <= Len(tk.responses) + 1
            /\ tk.pc = "awaiting" =>
                   /\ Len(tk.requests) = Len(tk.responses) + 1
                   /\ tk.committed = PagesOf(tk, Len(tk.responses))
                   /\ PagesStored(t, orders)
            /\ sync_metadata /= tk.meta_at_entry =>
                   /\ tk.pc = "done"
                   /\ Len(tk.requests) = Len(tk.responses)
                   /\ tk.committed = PagesOf(tk, Len(tk.responses))
                   /\ PagesStored(t, orders)

\* a pass has committed a page of two records and awaits the answer to its
\* second request
C26_Witness ==
    \E t \in Tasks :
        /\ task[t].pc = "awaiting"
        /\ Len(task[t].requests) = 2
        /\ Len(task[t].responses) = 1
        /\ Len(task[t].committed) = 2
        /\ PagesStored(t, orders)

(* ------------------------- the endpoints' token check ------------------ *)

\* a sync endpoint finds no access token and raises HTTPException(401)
\* before it calls the task
Unauthorized(t) ==
    /\ task[t].pc = "idle"
    /\ \E token_record \in first(oauth_tokens) :
           ~TruthyStr(endpoint_access_token(token_record))
    /\ task' = [task EXCEPT ![t] = [IdleTask EXCEPT !.pc = "failed",
                                                    !.error = "HTTPException 401"]]
    /\ UNCHANGED <<clock, utcoffset, remote, orders, sync_metadata,
                   last_upserted, prev_run, calls,
                   tiktok_access_token, oauth_tokens, remote_products, products>>

\* rows of oauth_tokens as save_tokens writes them, expiring at the buffer
\* from the server's start and in the minutes after it
StoredTokens ==
    { [ access_token |-> encrypt_token("stored"),
        expires_at |-> Now0 + TokenBufferMinutes + d,
        shop_id |-> "shop" ] : d \in 0..(MaxClock + 1) }

\* settings with and without TIKTOK_ACCESS_TOKEN, a token table of up to two
\* rows, an upstream shop of one order
InitAuth ==
    /\ clock = Now0
    /\ utcoffset \in UtcOffsets
    /\ remote = << remote_order(1, "ok", Now0, "UNPAID") >>
    /\ orders = {}
    /\ sync_metadata = {}
    /\ task = [t \in Tasks |-> IdleTask]
    /\ last_upserted = EmptyDict
    /\ prev_run = [tracking |-> FALSE, run |-> None]
    /\ calls = <<>>
    /\ tiktok_access_token \in {None, Some(""), ConfiguredToken}
    /\ oauth_tokens \in {tbl \in SUBSET StoredTokens : Cardinality(tbl) <= 2}
    /\ remote_products = <<>>
    /\ products = {}

\* serialised calls of the sync endpoints, each refused or running a pass
NextAuth ==
    \/ Tick
    \/ \E t \in Tasks :
           \/ \E max_orders \in Caps, force_full_sync \in BOOLEAN :
                  /\ NoPassInFlight
                  /\ FreeSlot(t)
                  /\ StartPass(t, max_orders, force_full_sync)
           \/ /\ NoPassInFlight
              /\ FreeSlot(t)
              /\ Unauthorized(t)
           \/ FetchRaises(t)
           \/ ReceivePage(t)
           \/ EndPass(t)

SpecAuth == InitAuth /\ [][NextAuth]_vars

\* an access token is configured in settings, or a stored token expires
\* more than 5 minutes from now
TokenAvailable ==
    \/ TruthyStr(tiktok_access_token)
    \/ \E r \in oauth_tokens : r.expires_at > utcnow + TokenBufferMinutes

\* C30: when a sync endpoint is called while no access token is configured
\* and no stored token expires more than 5 minutes ahead, it starts no pass:
\* it fails with a 401, sends no request and leaves the orders and the
\* watermark as they are. A pass it starts runs with a token that was
\* available: the one of settings, else the stored one.
C30_NoTokenNoPass ==
    [][\A t \in Tasks :
           (task[t].pc = "idle" /\ task'[t].pc /= "idle") =>
               /\ ~TokenAvailable =>
                      /\ task'[t].pc = "failed"
                      /\ task'[t].error = "HTTPException 401"
                      /\ task'[t].requests = <<>>
                      /\ orders' = orders
                      /\ sync_metadata' = sync_metadata
               /\ task'[t].error /= "HTTPException 401" =>
                      /\ TokenAvailable
                      /\ task'[t].access_token
                             = IF TruthyStr(tiktok_access_token)
                               THEN tiktok_access_token[1] ELSE "stored"
    ]_vars

\* an endpoint has answered 401 while the token table holds a token that
\* has not expired yet, but will within 5 minutes
C30_Witness ==
    \E t \in Tasks :
        /\ task[t].error = "HTTPException 401"
        /\ ~TokenAvailable
        /\ \E r \in oauth_tokens : r.expires_at > utcnow

(* ------------------------------ products sync -------------------------- *)

\* request_body of get_products
get_products_body(status) ==
    IF TruthyStr(status) THEN Put(EmptyDict, "status", status[1]) ELSE EmptyDict

\* params of get_products: page_number is an argument and is not written
\* into them
get_products_params(page_size, page_number) ==
    LET p0 == << <<"page_size", Min(page_size, ProductsPageSizeCap)>>,
                 <<"version", "202502">> >>
        p1 == IF TruthyStr(tiktok_shop_cipher)
              THEN SetItem(p0, "shop_cipher", tiktok_shop_cipher[1]) ELSE p0
    IN IF TruthyStr(tiktok_shop_id)
       THEN SetItem(p1, "shop_id", tiktok_shop_id[1]) ELSE p1

\* the request get_products sends
get_products(self, page_size, page_number, status) ==
    make_request(self, "POST", "/product/202502/products/search",
                 Some(get_products_params(page_size, page_number)),
                 Some(get_products_body(status))).request

\* the dict transform_product returns for a product with no skus, images,
\* category, brand or audit
transform_product(raw_product) ==
    [ id             |-> OrStr(Get(raw_product, "id"), Get(raw_product, "product_id")),
      name           |-> OrStr(Get(raw_product, "title"),
                               GetOr(raw_product, "product_name", Some("Unknown Product"))),
      sku            |-> None,
      status         |-> GetOr(raw_product, "status", Some("UNKNOWN")),
      price          |-> "0",
      stock_quantity |-> 0,
      raw_data       |-> raw_product ]

\* lines 207-220 for the records of a page: the row with the product's id
\* is overwritten, or a row is added
RECURSIVE upsert_products(_, _)
upsert_products(tbl, page) ==
    IF page = <<>> THEN tbl
    ELSE LET product_data == transform_product(Head(page))
         IN upsert_products({r \in tbl : r.id /= product_data.id} \cup {product_data},
                            Tail(page))

\* the k-th upstream product
remote_product(k) ==
    [ id |-> Some("p" \o ToString(k)), title |-> Some("product"),
      status |-> Some("ACTIVATE") ]

\* the page of the product list a request asks for: the one its query
\* parameters name, the first when they name none
page_asked(req) ==
    IF "page_number" \in DOMAIN req.params THEN req.params["page_number"] ELSE 1

\* the JSON an upstream that puts at most cap products in a page answers a
\* product-search request with: data.products and data.more
products_response(req, cap) ==
    LET n == Min(req.params["page_size"], cap)
        k == page_asked(req)
        page == SubSeq(remote_products, (k - 1) * n + 1, Min(k * n, Len(remote_products)))
    IN [ code |-> 0,
         message |-> "Success",
         data |-> [ products |-> page, more |-> k * n < Len(remote_products) ] ]

\* lines 190-193: the call of client.get_products, up to the await
call_get_products(tk) ==
    [tk EXCEPT !.pc = "awaiting",
               !.requests = Append(@, get_products(tk.client, ProductsSyncPageSize,
                                                   tk.page_number, None))]

\* lines 196-232: the code run when get_products returns response, up to
\* the next await or the end of the pass
on_products_response(tk0, response, tbl, commit_ok) ==
    LET tk == [tk0 EXCEPT !.responses = Append(@, response)]
        return(x) == [x EXCEPT !.pc = "done", !.returned = Some(x.synced_count)]
    IN
    IF response["code"] /= 0
    THEN [ tk |-> return(tk), products |-> tbl ]
    ELSE LET data == response["data"]
             page == data["products"]
         IN
         IF page = <<>>
         THEN [ tk |-> return(tk), products |-> tbl ]
         ELSE IF ~commit_ok
         THEN [ tk |-> raise(tk, "OperationalError"), products |-> tbl ]
         ELSE LET tk2 == [tk EXCEPT !.synced_count = @ + Len(page),
                                    !.committed = @ \o page]
              IN IF ~data["more"]
                 THEN [ tk |-> return(tk2), products |-> upsert_products(tbl, page) ]
                 ELSE [ tk |-> call_get_products([tk2 EXCEPT !.page_number = @ + 1]),
                        products |-> upsert_products(tbl, page) ]

\* a sync endpoint (/api/sync/products or /api/sync/trigger) finds an access
\* token; sync_products_task is entered and runs to its first await
StartProducts(t) ==
    /\ task[t].pc = "idle"
    /\ \E token_record \in first(oauth_tokens) :
        LET access_token == endpoint_access_token(token_record) IN
        /\ TruthyStr(access_token)
        /\ task' = [task EXCEPT ![t] =
                        call_get_products([IdleTask EXCEPT
                                               !.access_token = access_token[1],
                                               !.client = TikTokShopClient(access_token),
                                               !.entered = Some(utcnow)])]
    /\ UNCHANGED <<clock, utcoffset, remote, orders, sync_metadata,
                   last_upserted, prev_run, calls,
                   tiktok_access_token, oauth_tokens, remote_products, products>>

\* an upstream that puts at most cap products in a page answers the
\* outstanding request of a products pass; the pass runs on to its next
\* await or to its end
ReceiveProducts(t, cap) ==
    /\ task[t].pc = "awaiting"
    /\ Len(task[t].requests) < MaxRequests
    /\ \E commit_ok \in BOOLEAN :
        LET r == on_products_response(task[t],
                                      products_response(Last(task[t].requests), cap),
                                      products, commit_ok)
        IN /\ task' = [task EXCEPT ![t] = r.tk]
           /\ products' = r.products
    /\ UNCHANGED <<clock, utcoffset, remote, orders, sync_metadata,
                   last_upserted, prev_run, calls,
                   tiktok_access_token, oauth_tokens, remote_products>>

\* upstream product lists of 1 to MaxOrders + 1 products
InitProducts ==
    /\ clock = Now0
    /\ utcoffset \in UtcOffsets
    /\ remote = <<>>
    /\ orders = {}
    /\ sync_metadata = {}
    /\ task = [t \in Tasks |-> IdleTask]
    /\ last_upserted = EmptyDict
    /\ prev_run = [tracking |-> FALSE, run |-> None]
    /\ calls = <<>>
    /\ tiktok_access_token = ConfiguredToken
    /\ oauth_tokens = {}
    /\ remote_products \in { [k \in 1..n |-> remote_product(k)] : n \in 1..(MaxOrders + 1) }
    /\ products = {}

\* serialised products passes
NextProducts ==
    \/ Tick
    \/ \E t \in Tasks :
           \/ /\ NoPassInFlight
              /\ FreeSlot(t)
              /\ StartProducts(t)
           \/ FetchRaises(t)
           \/ \E cap \in 1..MaxPage : ReceiveProducts(t, cap)
           \/ EndPass(t)

SpecProducts == InitProducts /\ [][NextProducts]_vars

\* C27: the k-th request of a products pass asks for page number k.
C27_KthRequestAsksPageK ==
    \A t \in Tasks : \A k \in DOMAIN task[t].requests :
        /\ "page_number" \in DOMAIN task[t].requests[k].params
        /\ page_asked(task[t].requests[k]) = k

====
